---- MODULE Spec2Model ----
(***************************************************************************)
(* tuitodo: the action-driven event loop of src/main.rs, the list          *)
(* navigator of src/list.rs, the task item of src/task_item.rs and the     *)
(* checkbox-line persistence codec of src/file.rs.                         *)
(*                                                                         *)
(* A Rust String is a sequence of one-character strings.  usize values are *)
(* naturals below 2^UsizeBits; Option<usize> None is NoSelection.          *)
(***************************************************************************)
EXTENDS Integers, Sequences, FiniteSets, TLC

VARIABLES
    file,            \* bytes of the todo file on disk, or Missing
    items,           \* app.tasks.items
    selected,        \* app.tasks.state.selected()
    mode,            \* app.mode
    new_task,        \* app.new_task.value()
    should_quit,     \* app.should_quit
    pc,              \* position of run(): "next", "drain", "exited", "panicked";
                     \* of a codec run: "write", "load", "loaded"; "nav"
    act,             \* the action applied by the current loop iteration
    pressed,         \* the key the current loop iteration received, "" if none
    drawn,           \* tui.draw calls made by the current loop iteration
    writers,         \* spawned write_tasks futures that have not completed
    last_done,       \* snapshot of the write_tasks future that completed last
    events,          \* number of events tui.next() has yielded
    fault,           \* "none", or the panic that ended the process
    overflow_checks, \* build profile: TRUE panics on usize overflow, FALSE wraps
    decoded,         \* result of a load_tasks call made after startup
    nav              \* navigator exercise: start selection, direction, calls made

vars == <<file, items, selected, mode, new_task, should_quit, pc, act, pressed,
          drawn, writers, last_done, events, fault,
          overflow_checks, decoded, nav>>

----------------------------------------------------------------------------
(* Bounds *)

MaxInitTasks == 2  \* longest task list loaded at startup
MaxEvents == 5     \* events tui.next() yields in one run
UsizeBits == 3     \* width of usize (scaled down; lists stay shorter than 2^UsizeBits - 1)
MaxCodecTasks == 2 \* longest list handed to the codec
MaxCodecChars == 2 \* characters of task text in a list handed to the codec
MaxRawLen == 10    \* longest raw file made of "]", " " and line feeds
MaxWideLen == 5    \* longest raw file made of any of the modelled bytes

----------------------------------------------------------------------------
(* Values *)

NoSelection == -1
Open == "Open"
Done == "Done"
LF == "\n"
CR == "\r"
Invalid == "not UTF-8"     \* a byte sequence that is not valid UTF-8
Missing == <<"no file">>   \* fs::metadata(file_path) fails

UsizeMax == 2^UsizeBits - 1

\* a - b on usize in a build without overflow checks
wrapping_sub(a, b) == (a - b + 2^UsizeBits) % (2^UsizeBits)

RECURSIVE SeqsUpTo(_, _)
SeqsUpTo(S, n) ==
    IF n = 0 THEN {<<>>}
    ELSE LET shorter == SeqsUpTo(S, n - 1)
         IN shorter \cup {Append(s, x) : s \in shorter, x \in S}

----------------------------------------------------------------------------
(* src/task_item.rs *)

TaskItem_new(text, state) == [text |-> text, state |-> state]

toggle_state_done(item) == [item EXCEPT !.state = Done]

toggle_state(item) ==
    [item EXCEPT !.state = IF item.state = Open THEN Done ELSE Open]

----------------------------------------------------------------------------
(* src/file.rs: the codec *)

get_state_char_blank(state) == " "
get_state_char(state) == IF state = Done THEN "x" ELSE " "

\* format!("- [{}] {}", ...) followed by the b"\n" of the write loop
EncodeLine(task) ==
    <<"-", " ", "[", get_state_char(task.state), "]", " ">> \o task.text \o <<LF>>

RECURSIVE Encode(_)
Encode(tasks) ==
    IF tasks = <<>> THEN <<>>
    ELSE EncodeLine(Head(tasks)) \o Encode(Tail(tasks))

\* position of the first LF of s, 0 when there is none
FirstLF(s) ==
    IF \E i \in 1..Len(s) : s[i] = LF
    THEN CHOOSE i \in 1..Len(s) : s[i] = LF /\ \A j \in 1..(i - 1) : s[j] # LF
    ELSE 0

\* Lines::next_line: a line ends at LF; the LF and one CR before it are dropped
StripCR(s) ==
    IF Len(s) > 0 /\ s[Len(s)] = CR THEN SubSeq(s, 1, Len(s) - 1) ELSE s

RECURSIVE Lines(_)
Lines(bytes) ==
    IF bytes = <<>> THEN <<>>
    ELSE LET n == FirstLF(bytes)
         IN IF n = 0 THEN <<bytes>>
            ELSE <<StripCR(SubSeq(bytes, 1, n - 1))>>
                 \o Lines(SubSeq(bytes, n + 1, Len(bytes)))

\* position of the first "] " of s at or after from, 0 when there is none
FindSep(s, from) ==
    LET hits == {i \in from..(Len(s) - 1) : s[i] = "]" /\ s[i + 1] = " "}
    IN IF hits = {} THEN 0
       ELSE CHOOSE i \in hits : \A j \in hits : i <= j

\* line.split("] ").nth(1): <<TRUE, piece>> or <<FALSE, <<>>>>
SplitNth1(line) ==
    LET a == FindSep(line, 1)
    IN IF a = 0 THEN <<FALSE, <<>>>>
       ELSE LET b == FindSep(line, a + 2)
            IN <<TRUE, SubSeq(line, a + 2, IF b = 0 THEN Len(line) ELSE b - 1)>>

DecodeLine_keep(line) ==
    IF Len(line) < 4 THEN <<>>
    ELSE LET state == IF line[4] = "x" THEN Done ELSE Open
             piece == SplitNth1(line)
         IN <<TaskItem_new(IF piece[1] THEN piece[2] ELSE <<>>, state)>>

\* the body of the while-let loop of load_tasks for one line
DecodeLine(line) ==
    IF Len(line) < 4 THEN <<>>
    ELSE LET state == IF line[4] = "x" THEN Done ELSE Open
             piece == SplitNth1(line)
         IN IF piece[1] THEN <<TaskItem_new(piece[2], state)>> ELSE <<>>

RECURSIVE DecodeLines(_)
DecodeLines(ls) ==
    IF ls = <<>> THEN <<>>
    ELSE DecodeLine(Head(ls)) \o DecodeLines(Tail(ls))

\* lines.next_line().await? returns Err(InvalidData) on a line that is not UTF-8
load_fails(bytes) ==
    bytes # Missing /\ \E i \in 1..Len(bytes) : bytes[i] = Invalid

\* the Ok value of load_tasks
load_tasks(bytes) == IF bytes = Missing THEN <<>> ELSE DecodeLines(Lines(bytes))


\* OpenOptions truncate(true) then one write of the BufWriter's bytes at the
\* descriptor's own offset 0: bytes of f past the end of data stay in place
Overwrite(f, data) == data \o SubSeq(f, Len(data) + 1, Len(f))

----------------------------------------------------------------------------
(* src/list.rs: the navigator *)

\* self.items.len() - 1 overflows exactly on the empty list
previous_overflows(sel, len) == (sel = NoSelection \/ sel = 0) /\ len = 0
previous(sel, len) ==
    IF sel = NoSelection THEN wrapping_sub(len, 1)
    ELSE IF sel = 0 THEN wrapping_sub(len, 1) ELSE sel - 1

next_overflows(sel, len) == sel # NoSelection /\ len = 0
next_clamped(sel, len) ==
    IF sel = NoSelection THEN 0
    ELSE IF sel >= wrapping_sub(len, 1) THEN sel ELSE sel + 1
next(sel, len) ==
    IF sel = NoSelection THEN 0
    ELSE IF sel >= wrapping_sub(len, 1) THEN 0 ELSE sel + 1

----------------------------------------------------------------------------
(* src/main.rs: key resolution *)

CharKeys == {"j", "k", " ", "q"}
Keys == CharKeys \cup {"Enter", "Esc", "Backspace"}

Action(kind, key) == [kind |-> kind, key |-> key]
Idle == Action("idle", "")

get_action_modeless(m, key) ==
    IF key = "q" THEN Action("Quit", "")
    ELSE IF m = "Normal"
    THEN CASE key = "j" -> Action("NextTask", "")
           [] key = "k" -> Action("PreviousTask", "")
           [] key = "Enter" -> Action("EnterInsertMode", "")
           [] key = " " -> Action("ToggleTaskState", "")
           [] OTHER -> Action("None", "")
    ELSE CASE key = "Esc" -> Action("ClearNewTask", "")
           [] key = "Enter" -> Action("AddTask", "")
           [] OTHER -> Action("HandleInputKey", key)

get_action(m, key) ==
    IF m = "Normal"
    THEN CASE key = "j" -> Action("NextTask", "")
           [] key = "k" -> Action("PreviousTask", "")
           [] key = "Enter" -> Action("EnterInsertMode", "")
           [] key = " " -> Action("ToggleTaskState", "")
           [] key = "q" -> Action("Quit", "")
           [] OTHER -> Action("None", "")
    ELSE CASE key = "Esc" -> Action("ClearNewTask", "")
           [] key = "Enter" -> Action("AddTask", "")
           [] OTHER -> Action("HandleInputKey", key)

\* Input::handle_event on the value: a character is inserted at the cursor,
\* which stays at the end; Backspace deletes the character before it
handle_event(value, key) ==
    IF key \in CharKeys THEN Append(value, key)
    ELSE IF key = "Backspace" /\ value # <<>> THEN SubSeq(value, 1, Len(value) - 1)
    ELSE value

----------------------------------------------------------------------------
(* src/main.rs: update, and run's loop *)

codec_vars == <<decoded, nav>>
app_vars == <<items, selected, mode, new_task, should_quit>>
disk_vars == <<file, writers, last_done>>

Running == pc \in {"next", "drain"}

Panic(why) ==
    /\ pc' = "panicked"
    /\ fault' = why

\* tokio::spawn(async move { write_tasks(&path, tasks).await })
Spawn(tasks) ==
    writers' = Append(writers, [snap |-> tasks, pc |-> "open"])

UpdateNextTask ==
    /\ IF next_overflows(selected, Len(items)) /\ overflow_checks
       THEN Panic("overflow") /\ UNCHANGED selected
       ELSE selected' = next(selected, Len(items)) /\ pc' = "drain" /\ UNCHANGED fault
    /\ UNCHANGED <<items, mode, new_task, should_quit, disk_vars>>

UpdatePreviousTask ==
    /\ IF previous_overflows(selected, Len(items)) /\ overflow_checks
       THEN Panic("overflow") /\ UNCHANGED selected
       ELSE selected' = previous(selected, Len(items)) /\ pc' = "drain"
            /\ UNCHANGED fault
    /\ UNCHANGED <<items, mode, new_task, should_quit, disk_vars>>

UpdateEnterInsertMode ==
    /\ mode' = "Input"
    /\ pc' = "drain"
    /\ UNCHANGED <<items, selected, new_task, should_quit, disk_vars, fault>>

UpdateClearNewTask_keep ==
    /\ mode' = "Normal"
    /\ pc' = "drain"
    /\ UNCHANGED <<new_task, items, selected, should_quit, disk_vars, fault>>

UpdateClearNewTask_spawning ==
    /\ new_task' = <<>>
    /\ mode' = "Normal"
    /\ pc' = "drain"
    /\ Spawn(items)
    /\ UNCHANGED <<items, selected, should_quit, file, last_done, fault>>

UpdateClearNewTask ==
    /\ new_task' = <<>>
    /\ mode' = "Normal"
    /\ pc' = "drain"
    /\ UNCHANGED <<items, selected, should_quit, disk_vars, fault>>

UpdateAddTask_front ==
    /\ items' = <<TaskItem_new(new_task, Open)>> \o items
    /\ new_task' = <<>>
    /\ Spawn(items')
    /\ pc' = "drain"
    /\ UNCHANGED <<selected, mode, should_quit, file, last_done, fault>>

UpdateAddTask ==
    /\ items' = Append(items, TaskItem_new(new_task, Open))
    /\ new_task' = <<>>
    /\ Spawn(items')
    /\ pc' = "drain"
    /\ UNCHANGED <<selected, mode, should_quit, file, last_done, fault>>

UpdateHandleInputKey(key) ==
    /\ new_task' = handle_event(new_task, key)
    /\ pc' = "drain"
    /\ UNCHANGED <<items, selected, mode, should_quit, disk_vars, fault>>

UpdateToggleTaskState ==
    /\ IF selected = NoSelection
       THEN pc' = "drain" /\ UNCHANGED <<items, disk_vars, fault>>
       ELSE IF selected >= Len(items)
       THEN Panic("index out of bounds") /\ UNCHANGED <<items, disk_vars>>
       ELSE /\ items' = [items EXCEPT ![selected + 1] = toggle_state(@)]
            /\ Spawn(items')
            /\ pc' = "drain"
            /\ UNCHANGED <<file, last_done, fault>>
    /\ UNCHANGED <<selected, mode, new_task, should_quit>>

UpdateQuit ==
    /\ should_quit' = TRUE
    /\ pc' = "drain"
    /\ UNCHANGED <<items, selected, mode, new_task, disk_vars, fault>>

\* Tick, Render and None fall to the `_ => {}` arm
UpdateIgnored ==
    /\ pc' = "drain"
    /\ UNCHANGED <<app_vars, disk_vars, fault>>

update(a) ==
    \/ a.kind = "NextTask" /\ UpdateNextTask
    \/ a.kind = "PreviousTask" /\ UpdatePreviousTask
    \/ a.kind = "EnterInsertMode" /\ UpdateEnterInsertMode
    \/ a.kind = "ClearNewTask" /\ UpdateClearNewTask
    \/ a.kind = "AddTask" /\ UpdateAddTask
    \/ a.kind = "HandleInputKey" /\ UpdateHandleInputKey(a.key)
    \/ a.kind = "ToggleTaskState" /\ UpdateToggleTaskState
    \/ a.kind = "Quit" /\ UpdateQuit
    \/ a.kind \in {"Tick", "Render", "None"} /\ UpdateIgnored

\* if let Action::Render = act { tui.draw(...) }
draws_any(a) == 1
draws(a) == IF a.kind = "Render" THEN 1 ELSE 0

\* The action sent by this iteration is the only one in the channel (no other
\* sender is ever spawned: get_action never yields a NetworkRequest action), so
\* the try_recv loop applies exactly that action and finds the channel empty.
Apply(a) ==
    /\ update(a)
    /\ act' = a
    /\ drawn' = drawn + draws(a)
    /\ UNCHANGED <<codec_vars, overflow_checks>>

\* let e = tui.next().await.unwrap()
Deliver ==
    /\ pc = "next"
    /\ events < MaxEvents
    /\ events' = events + 1

\* tui.next() yields a key: get_action resolves it, the loop applies the action
KeyEvent ==
    /\ Deliver
    /\ \E k \in Keys : pressed' = k /\ Apply(get_action(mode, k))

\* tui.next() yields Tick, Render or Quit: the action of the same name is applied
TimerEvent ==
    /\ Deliver
    /\ pressed' = ""
    /\ \E kind \in {"Tick", "Render", "Quit"} : Apply(Action(kind, ""))

\* tui.next() yields any other event: nothing is sent, nothing is applied
OtherEvent ==
    /\ Deliver
    /\ pc' = "drain"
    /\ UNCHANGED <<app_vars, disk_vars, codec_vars, act, pressed, drawn, fault,
                   overflow_checks>>

LoopCheck_continue ==
    /\ pc = "drain"
    /\ pc' = "next"
    /\ act' = Idle
    /\ pressed' = ""
    /\ drawn' = 0
    /\ UNCHANGED <<app_vars, disk_vars, codec_vars, events, fault, overflow_checks>>

\* after the try_recv loop: break on should_quit, else await the next event
LoopCheck ==
    /\ pc = "drain"
    /\ pc' = IF should_quit THEN "exited" ELSE "next"
    /\ act' = Idle
    /\ pressed' = ""
    /\ drawn' = 0
    /\ UNCHANGED <<app_vars, disk_vars, codec_vars, events, fault, overflow_checks>>

----------------------------------------------------------------------------
(* src/file.rs: a spawned write_tasks future, between its awaits *)

RemoveAt(s, i) == SubSeq(s, 1, i - 1) \o SubSeq(s, i + 1, Len(s))

\* open(...).await with truncate(true); the lines then fill the BufWriter
WriterOpen ==
    /\ Running
    /\ \E i \in 1..Len(writers) :
         /\ writers[i].pc = "open"
         /\ file' = <<>>
         /\ writers' = [writers EXCEPT ![i].pc = "flush"]
    /\ UNCHANGED <<app_vars, last_done, codec_vars, events, pc, act, pressed,
                   drawn, fault, overflow_checks>>

\* writer.flush().await: the buffered bytes reach the file, the future is done
WriterFlush ==
    /\ Running
    /\ \E i \in 1..Len(writers) :
         /\ writers[i].pc = "flush"
         /\ file' = Overwrite(file, Encode(writers[i].snap))
         /\ last_done' = <<TRUE, writers[i].snap>>
         /\ writers' = RemoveAt(writers, i)
    /\ UNCHANGED <<app_vars, codec_vars, events, pc, act, pressed,
                   drawn, fault, overflow_checks>>

----------------------------------------------------------------------------
(* The application *)

InitTexts == {<<"a">>}
InitTasks == {TaskItem_new(t, s) : t \in InitTexts, s \in {Open, Done}}
InitLists == SeqsUpTo(InitTasks, MaxInitTasks)

\* run() up to the loop: the file is loaded, nothing is selected
Init ==
    /\ \E l \in InitLists : file = Encode(l)
    /\ items = load_tasks(file)
    /\ selected = NoSelection
    /\ mode = "Normal"
    /\ new_task = <<>>
    /\ should_quit = FALSE
    /\ pc = "next"
    /\ act = Idle
    /\ pressed = ""
    /\ drawn = 0
    /\ writers = <<>>
    /\ last_done = <<FALSE, <<>>>>
    /\ events = 0
    /\ fault = "none"
    /\ overflow_checks \in BOOLEAN
    /\ decoded = <<>>
    /\ nav = <<>>

Next ==
    \/ KeyEvent
    \/ TimerEvent
    \/ OtherEvent
    \/ LoopCheck
    \/ WriterOpen
    \/ WriterFlush

Spec == Init /\ [][Next]_vars

----------------------------------------------------------------------------
(* The codec on its own: write_tasks, then load_tasks of what it wrote *)

CodecChars == {"x", "]", " ", CR, LF}
CodecTexts(len) == {t \in SeqsUpTo(CodecChars, len) : Len(t) = len}

\* the lists of at most k tasks whose texts hold at most b characters in all
RECURSIVE ListsWithin(_, _)
ListsWithin(k, b) ==
    IF k = 0 THEN {<<>>}
    ELSE {<<>>} \cup UNION {
           {<<TaskItem_new(t, st)>> \o rest :
               t \in CodecTexts(len), st \in {Open, Done},
               rest \in ListsWithin(k - 1, b - len)} : len \in 0..b}

app_idle == <<selected, mode, new_task, should_quit, act, pressed, drawn, writers,
              last_done, events, fault, overflow_checks>>

InitIdle ==
    /\ mode = "Normal"
    /\ new_task = <<>>
    /\ should_quit = FALSE
    /\ act = Idle
    /\ pressed = ""
    /\ drawn = 0
    /\ writers = <<>>
    /\ last_done = <<FALSE, <<>>>>
    /\ events = 0
    /\ fault = "none"
    /\ overflow_checks = TRUE

InitCodec ==
    /\ InitIdle
    /\ selected = NoSelection
    /\ items \in ListsWithin(MaxCodecTasks, MaxCodecChars)
    /\ file \in {<<>>, Encode(<<TaskItem_new(<<"x", "x", "x">>, Done)>>)}
    /\ pc = "write"
    /\ decoded = <<>>
    /\ nav = <<>>

\* write_tasks(path, items), alone, from open to the end of flush
CodecWrite ==
    /\ pc = "write"
    /\ file' = Overwrite(<<>>, Encode(items))
    /\ pc' = "load"
    /\ UNCHANGED <<items, decoded, nav, app_idle>>

\* load_tasks(path)
CodecLoad ==
    /\ pc = "load"
    /\ decoded' = load_tasks(file)
    /\ pc' = "loaded"
    /\ UNCHANGED <<items, file, nav, app_idle>>

NextCodec ==
    \/ CodecWrite
    \/ CodecLoad

SpecCodec == InitCodec /\ [][NextCodec]_vars

----------------------------------------------------------------------------
(* Startup on its own: run() loads whatever the file holds *)

NarrowBytes == {"]", " ", LF}
WideBytes == {"x", "]", " ", LF, CR, Invalid}
\* the files of n bytes drawn from B
RawFiles(B, n) == [1..n -> B]

InitLoad ==
    /\ InitIdle
    /\ selected = NoSelection
    /\ items = <<>>
    /\ \/ \E n \in 0..MaxRawLen : file \in RawFiles(NarrowBytes, n)
       \/ \E n \in 0..MaxWideLen : file \in RawFiles(WideBytes, n)
       \/ file = Missing
    /\ pc = "load"
    /\ decoded = <<>>
    /\ nav = <<>>

\* let Ok(tasks) = load_tasks(...).await else { panic!("could not load tasks") }
LoadFile ==
    /\ pc = "load"
    /\ IF load_fails(file)
       THEN Panic("could not load tasks") /\ UNCHANGED decoded
       ELSE decoded' = load_tasks(file) /\ pc' = "loaded" /\ UNCHANGED fault
    /\ UNCHANGED <<file, items, selected, mode, new_task, should_quit, act, pressed,
                   drawn, writers, last_done, events, overflow_checks, nav>>

NextLoad == LoadFile

SpecLoad == InitLoad /\ [][NextLoad]_vars

----------------------------------------------------------------------------
(* The navigator on its own: next or previous, called len times *)

InitNav ==
    /\ InitIdle
    /\ items \in InitLists \ {<<>>}
    /\ file = Encode(items)
    /\ selected \in {NoSelection} \cup 0..UsizeMax
    /\ \E dir \in {"next", "previous"} :
         nav = [start |-> selected, dir |-> dir, calls |-> 0]
    /\ pc = "nav"
    /\ decoded = <<>>

nav_idle == <<file, items, mode, new_task, should_quit, pc, act, pressed, drawn,
              writers,
              last_done, events, fault, overflow_checks, decoded>>

\* app.tasks.next()
NavNext ==
    /\ pc = "nav"
    /\ nav.dir = "next"
    /\ nav.calls < Len(items)
    /\ selected' = next(selected, Len(items))
    /\ nav' = [nav EXCEPT !.calls = @ + 1]
    /\ UNCHANGED nav_idle

\* app.tasks.previous()
NavPrevious ==
    /\ pc = "nav"
    /\ nav.dir = "previous"
    /\ nav.calls < Len(items)
    /\ selected' = previous(selected, Len(items))
    /\ nav' = [nav EXCEPT !.calls = @ + 1]
    /\ UNCHANGED nav_idle

NextNav ==
    \/ NavNext
    \/ NavPrevious

SpecNav == InitNav /\ [][NextNav]_vars

----------------------------------------------------------------------------
(* Properties *)

\* the loop iteration of this step applied an action of this kind
Applying(kind) == pc = "next" /\ pc' # "next" /\ act'.kind = kind

HasSep(t) == \E i \in 1..(Len(t) - 1) : t[i] = "]" /\ t[i + 1] = " "
HasLF(t) == \E i \in 1..Len(t) : t[i] = LF
EndsWithCR(t) == Len(t) > 0 /\ t[Len(t)] = CR
PlainTexts(tasks) ==
    \A i \in 1..Len(tasks) : ~HasLF(tasks[i].text) /\ ~HasSep(tasks[i].text)

\* C1, as stated: a list whose texts hold no newline and no "] ", written by
\* write_tasks and read back by load_tasks, comes back equal
C1_RoundTrip_AsStated ==
    (pc = "loaded" /\ PlainTexts(items)) => decoded = items

\* C1, amended: a list whose texts hold no newline and no "] " and do not end
\* with a carriage return, written by write_tasks and read back by load_tasks,
\* comes back equal in length, order, text and state
C1_RoundTrip ==
    (pc = "loaded" /\ PlainTexts(items)
       /\ \A i \in 1..Len(items) : ~EndsWithCR(items[i].text))
    => decoded = items

\* two tasks, one Done with a carriage return inside its text and one Open with
\* empty text, have gone through write_tasks and load_tasks unchanged
C1_Witness ==
    /\ pc = "loaded"
    /\ Len(items) = 2
    /\ items[1] = TaskItem_new(<<CR, "x">>, Done)
    /\ items[2] = TaskItem_new(<<>>, Open)
    /\ decoded = items

\* C2: the selection is None only when the task list is empty, and otherwise
\* an index below the length of the list
C2_SelectionInvariant ==
    /\ selected = NoSelection => items = <<>>
    /\ selected # NoSelection => (0 <= selected /\ selected < Len(items))

\* C3: AddTask in Input mode appends one Open task holding the buffer's text,
\* empties the buffer and leaves the mode Normal
C3_SubmitCreate ==
    [][(Applying("AddTask") /\ mode = "Input")
       => /\ items' = Append(items, TaskItem_new(new_task, Open))
          /\ new_task' = <<>>
          /\ mode' = "Normal"]_vars

\* C4: NextTask on the empty list with no selection leaves the selection None
\* and does not panic
C4_NextOnEmpty ==
    [][(Applying("NextTask") /\ items = <<>> /\ selected = NoSelection)
       => (selected' = NoSelection /\ fault' = "none")]_vars

\* C5: ToggleTaskState never indexes the list out of bounds, and changes no
\* task when the selection names no existing task
C5_GuardedToggle ==
    [][Applying("ToggleTaskState")
       => /\ fault' = "none"
          /\ (selected = NoSelection \/ selected >= Len(items)) => items' = items]_vars

\* C6, as stated: on a non-empty list, from any starting selection, as many
\* calls of next (of previous) as the list has tasks return to the start
C6_NavigatorWrap_AsStated ==
    (pc = "nav" /\ nav.calls = Len(items)) => selected = nav.start

\* C6, amended: on a list of n > 0 tasks, from a starting selection that is an
\* index below n, n calls of next (of previous) return to the start; previous
\* from 0 selects n - 1 and next from n - 1 selects 0
C6_NavigatorWrap ==
    (pc = "nav" /\ nav.start # NoSelection /\ nav.start < Len(items))
    => /\ nav.calls = Len(items) => selected = nav.start
       /\ (nav.calls = 1 /\ nav.dir = "previous" /\ nav.start = 0)
          => selected = Len(items) - 1
       /\ (nav.calls = 1 /\ nav.dir = "next" /\ nav.start = Len(items) - 1)
          => selected = 0

\* next has been called twice on a list of two tasks, starting from index 1,
\* and the selection is index 1 again
C6_Witness ==
    /\ pc = "nav"
    /\ Len(items) = 2
    /\ nav = [start |-> 1, dir |-> "next", calls |-> 2]
    /\ selected = 1

\* C7: once every spawned write has completed, the file is the encoding of the
\* snapshot of the write that completed last
C7_LastCompletedWriteWins ==
    (writers = <<>> /\ last_done[1]) => file = Encode(last_done[2])

\* C8: when the loop has exited, every spawned write has completed
C8_NoLostFinalMutation ==
    pc = "exited" => writers = <<>>

\* C9: a loop iteration draws once when the action it applies is Render and
\* does not draw otherwise
C9_DrawOnlyOnRender ==
    drawn = IF act.kind = "Render" THEN 1 ELSE 0

\* the loop has applied a Render action and drawn once
C9_Witness ==
    pc = "drain" /\ act.kind = "Render" /\ drawn = 1

\* C10: ClearNewTask in Input mode sets the mode to Normal and empties the
\* buffer; the task list, the selection and the file stay as they are and no
\* write is spawned
C10_Cancel ==
    [][(Applying("ClearNewTask") /\ mode = "Input")
       => /\ mode' = "Normal"
          /\ new_task' = <<>>
          /\ items' = items
          /\ selected' = selected
          /\ file' = file
          /\ writers' = writers]_vars

\* the loop has applied ClearNewTask while an earlier write was in flight
C10_Witness ==
    /\ pc = "drain"
    /\ act.kind = "ClearNewTask"
    /\ mode = "Normal"
    /\ new_task = <<>>
    /\ items # <<>>
    /\ writers # <<>>

\* a line with a character at offset 3 and a "] " in it
Contributes(line) == Len(line) >= 4 /\ HasSep(line)
\* what follows the first "] " of such a line
AfterFirstSep(line) ==
    LET a == CHOOSE i \in 1..(Len(line) - 1) :
                 /\ line[i] = "]" /\ line[i + 1] = " "
                 /\ \A j \in 1..(i - 1) : ~(line[j] = "]" /\ line[j + 1] = " ")
    IN SubSeq(line, a + 2, Len(line))
StateAt3(line) == IF line[4] = "x" THEN Done ELSE Open
IsPrefix(t, u) == Len(t) <= Len(u) /\ SubSeq(u, 1, Len(t)) = t
HasInvalid(bytes) == \E i \in 1..Len(bytes) : bytes[i] = Invalid

\* C11: every line of the loaded file that has a character at offset 3 and
\* holds a "] " yields a task whose text is all of the line after its first
\* "] " and whose state is Done exactly when the character at offset 3 is 'x'
C11_DecodedText ==
    (pc = "loaded" /\ file # Missing) =>
        \A n \in 1..Len(Lines(file)) :
            LET line == Lines(file)[n]
            IN Contributes(line) =>
                   \E k \in 1..Len(decoded) :
                       decoded[k] = TaskItem_new(AfterFirstSep(line), StateAt3(line))

SelectionInRange == selected # NoSelection /\ selected < Len(items)

\* C13: with a valid selection i, one ToggleTaskState flips the state of task
\* i and changes no text, no other task, not the selection and not the mode,
\* and a second ToggleTaskState gives back the list before the first
C13_TogglePair ==
    [][(Applying("ToggleTaskState") /\ SelectionInRange) =>
          LET i == selected + 1
          IN /\ items' = [items EXCEPT
                             ![i].state = IF @ = Open THEN Done ELSE Open]
             /\ selected' = selected
             /\ mode' = mode
             /\ [items' EXCEPT ![selected' + 1] = toggle_state(@)] = items]_vars

\* two ToggleTaskState in a row with no write started in between: the first
\* snapshot differs from the list, the second equals it and the loaded file
C13_Witness ==
    /\ pc = "drain"
    /\ act.kind = "ToggleTaskState"
    /\ SelectionInRange
    /\ Len(writers) = 2
    /\ writers[1].pc = "open" /\ writers[2].pc = "open"
    /\ writers[1].snap # items
    /\ writers[2].snap = items
    /\ file = Encode(items)

\* C14: PreviousTask on the empty list, with or without a selection, does
\* not fault on len() - 1 and leaves no selection outside the list
C14_PreviousOnEmpty ==
    [][(Applying("PreviousTask") /\ items = <<>>) =>
          /\ fault' = "none"
          /\ selected' = NoSelection \/ selected' < Len(items')]_vars

\* C15: in Input mode every key but Esc and Enter resolves to HandleInputKey
\* of that key, and applying it leaves the mode, the selection, the task
\* list and the quit flag as they were and starts no write
C15_InputKeyIsolation ==
    [][(pc = "next" /\ pc' # "next" /\ mode = "Input"
          /\ pressed' \in Keys \ {"Esc", "Enter"}) =>
          /\ act' = Action("HandleInputKey", pressed')
          /\ pc' = "drain"
          /\ UNCHANGED <<mode, selected, items, should_quit, writers>>]_vars

\* j, k, space and q have been typed in Input mode: all four are in the
\* buffer, the mode is still Input and the quit flag is still clear
C15_Witness ==
    /\ pc = "drain"
    /\ pressed = "q"
    /\ mode = "Input"
    /\ new_task = <<"j", "k", " ", "q">>
    /\ ~should_quit

\* C16: the loop exits only with the quit flag set, the flag is set only by
\* applying Quit and is never cleared, and once it is set the loop takes no
\* further event and its next step is the exit
C16_Quit ==
    [][/\ (pc' = "exited" /\ pc # "exited") => should_quit
       /\ (should_quit' /\ ~should_quit) => Applying("Quit")
       /\ should_quit =>
             /\ should_quit'
             /\ events' = events
             /\ pc' # pc => pc' = "exited"]_vars

\* the loop has exited with the quit flag set, after at least two events
\* and with events still to come that it will not take
C16_Witness ==
    /\ pc = "exited"
    /\ should_quit
    /\ events >= 2
    /\ events < MaxEvents

\* C17: AddTask appends a task only when the buffer is not empty, so a task
\* it appends has non-empty text
C17_NonEmptyText ==
    [][Applying("AddTask") =>
          IF new_task = <<>> THEN items' = items
          ELSE items'[Len(items')].text # <<>>]_vars

\* C18: a loop iteration that applies AddTask, or ToggleTaskState with a
\* selection, changes the list and spawns exactly one write holding the list
\* as it is after the change; any other iteration spawns no write
C18_OneWritePerMutation ==
    [][(pc = "next" /\ pc' # "next") =>
          IF \/ act'.kind = "AddTask"
             \/ act'.kind = "ToggleTaskState" /\ selected # NoSelection
          THEN /\ items' # items
               /\ writers' = Append(writers, [snap |-> items', pc |-> "open"])
          ELSE writers' = writers]_vars

\* C19: whenever the mode is Normal the buffer is empty
C19_BufferCleared == mode = "Normal" => new_task = <<>>

\* Input mode has been entered and left by ClearNewTask with an event in
\* between: the mode is Normal again and the buffer is empty
C19_Witness ==
    /\ pc = "drain"
    /\ events = 3
    /\ pressed = "Esc"
    /\ act.kind = "ClearNewTask"
    /\ mode = "Normal"
    /\ new_task = <<>>

\* C20: no step shortens the list or changes the text or the place of a task
\* already in it; the list grows only by AddTask putting one task at the end;
\* the state of a task already in it changes only by ToggleTaskState
C20_AppendOnly ==
    [][/\ Len(items') >= Len(items)
       /\ \A i \in 1..Len(items) : items'[i].text = items[i].text
       /\ Len(items') > Len(items) =>
              /\ Applying("AddTask")
              /\ Len(items') = Len(items) + 1
       /\ (\E i \in 1..Len(items) : items'[i].state # items[i].state) =>
              Applying("ToggleTaskState")]_vars

\* AddTask has put the typed task behind the loaded one, which kept its text
C20_Witness ==
    /\ pc = "drain"
    /\ act.kind = "AddTask"
    /\ Len(items) = 2
    /\ items[1].text = <<"a">>
    /\ items[2] = TaskItem_new(<<"q">>, Open)

====
